---- MODULE Spec2Model ----
(***************************************************************************)
(* Model of scripts/python/power_analysis.py (VQEGNumSubjTool).            *)
(*                                                                         *)
(* Three specifications share one set of variables:                        *)
(*   SpecSolve  calculate_sample_size, one loop iteration per step, with   *)
(*              calculate_power's design dispatch and its verdict          *)
(*              (power < target_power) supplied by a power oracle;         *)
(*   SpecPlan   calculate_subjects and interactive_mode's test-type        *)
(*              selection;                                                 *)
(*   SpecTable  generate_table, one loop position per step.                *)
(* FairSolve is SpecSolve with weak fairness: a call that can take a step  *)
(* takes it (the loop runs in one thread and nothing suspends it).         *)
(*                                                                         *)
(* The values of scipy's t and nct distributions are not part of the       *)
(* program; what the program does with them is one comparison,             *)
(* power < target_power.  The oracle stands for that comparison: a         *)
(* monotone oracle answers "below" exactly for n < T, an arbitrary oracle  *)
(* answers anything (each n is asked at most once per call, so a free      *)
(* choice per evaluation covers every deterministic power function,        *)
(* NaN results included: NaN < target is False).                           *)
(***************************************************************************)
EXTENDS Integers, Sequences, FiniteSets, TLC

VARIABLES
    \* calculate_sample_size
    lo, hi, mid, pc, result, outcome, evals, observed,
    \* calculate_power
    test_type, df, oracle,
    \* calculate_subjects / interactive_mode
    args, record, planOutcome, solverCalls, typed,
    \* generate_table
    d_values, alpha_values, tpc, ti, tj, row, printed, calls, powerT

solveVars == <<lo, hi, mid, pc, result, outcome, evals, observed, test_type, df, oracle>>
planVars == <<args, record, planOutcome, solverCalls, typed>>
tableVars == <<d_values, alpha_values, tpc, ti, tj, row, printed, calls, powerT>>
vars == <<solveVars, planVars, tableVars>>

----------------------------------------------------------------------------
(* calculate_sample_size: the search bounds of line 78.                    *)
LO == 2
HI == 10000

(* The strings calculate_power documents, and others a caller can pass.    *)
Designs == {"paired", "two.sample"}
TestTypes == Designs \cup {"independent"}

(* calculate_power, lines 41-46: the design dispatch.  Anything that is    *)
(* not "paired" takes the else branch.                                     *)
Df(n, t) == IF t = "paired" THEN n - 1 ELSE 2 * n - 2

(* Power oracles: the verdict power < target_power at sample size n.       *)
MonotoneOracle(T) == [kind |-> "monotone", T |-> T]
ArbitraryOracle == [kind |-> "arbitrary", T |-> 0]
Thresholds == LO .. HI + 1
Oracles == {MonotoneOracle(T) : T \in Thresholds} \cup {ArbitraryOracle}

Below(orc, n) == n < orc.T
Verdicts(orc, n) == IF orc.kind = "monotone" THEN {Below(orc, n)} ELSE BOOLEAN

(* line 80: while hi - lo > 1                                              *)
LoopCondOffByOne(l, h) == h - l > 0
LoopCond(l, h) == h - l > 1

(* line 81: mid = (lo + hi) // 2                                           *)
MidLinear(l, h) == l + 1
Mid(l, h) == (l + h) \div 2

(* lines 83-86: if power < target_power: lo = mid  else: hi = mid          *)
NewLoSwapped(l, m, below) == IF below THEN l ELSE m
NewLo(l, m, below) == IF below THEN m ELSE l
NewHi(h, m, below) == IF below THEN h ELSE m

InitSolveVars ==
    /\ lo = LO
    /\ hi = HI
    /\ mid = 0
    /\ pc = "while"
    /\ result = 0
    /\ outcome = "running"
    /\ evals = 0
    /\ observed = {}
    /\ df = 0

IdleSolveVars ==
    /\ lo = LO
    /\ hi = HI
    /\ mid = 0
    /\ pc = "idle"
    /\ result = 0
    /\ outcome = "idle"
    /\ evals = 0
    /\ observed = {}
    /\ df = 0
    /\ test_type = "paired"

(* lines 80-86: one iteration of the while loop, the call of               *)
(* calculate_power(mid, ...) included.                                     *)
Iterate ==
    /\ pc = "while"
    /\ LoopCond(lo, hi)
    /\ LET m == Mid(lo, hi) IN
       \E below \in Verdicts(oracle, m) :
          /\ mid' = m
          /\ df' = Df(m, test_type)
          /\ evals' = evals + 1
          /\ observed' = observed \cup {<<m, below>>}
          /\ lo' = NewLo(lo, m, below)
          /\ hi' = NewHi(hi, m, below)
    /\ UNCHANGED <<pc, result, outcome, test_type, oracle>>
    /\ UNCHANGED <<planVars, tableVars>>

(* lines 80, 88: the loop condition fails, return hi.                      *)
Return ==
    /\ pc = "while"
    /\ ~LoopCond(lo, hi)
    /\ result' = hi
    /\ outcome' = "returned"
    /\ pc' = "done"
    /\ UNCHANGED <<lo, hi, mid, evals, observed, test_type, df, oracle>>
    /\ UNCHANGED <<planVars, tableVars>>

NextSolve == Iterate \/ Return

----------------------------------------------------------------------------
(* Floats are modelled as exact rationals <<numerator, denominator>> with  *)
(* a positive denominator.                                                 *)
Rat(p, q) == <<p, q>>
Num(x) == x[1]
Den(x) == x[2]
RatEq(x, y) == Num(x) * Den(y) = Num(y) * Den(x)
RatLess(x, y) == Num(x) * Den(y) < Num(y) * Den(x)
RatLeq(x, y) == Num(x) * Den(y) <= Num(y) * Den(x)
Zero == Rat(0, 1)
One == Rat(1, 1)

(* x / y for y # 0 (Python raises ZeroDivisionError for y = 0).            *)
RatDiv(x, y) ==
    IF Num(y) > 0 THEN Rat(Num(x) * Den(y), Den(x) * Num(y))
    ELSE Rat(-(Num(x) * Den(y)), Den(x) * (-Num(y)))

(* calculate_sample_size as a function of the power oracle: lines 78-88.   *)
RECURSIVE Search(_, _, _)
Search(l, h, orc) ==
    IF LoopCond(l, h)
    THEN LET m == Mid(l, h) IN
         Search(NewLo(l, m, Below(orc, m)), NewHi(h, m, Below(orc, m)), orc)
    ELSE h

calculate_sample_size(orc) == Search(LO, HI, orc)

(* Inputs of calculate_subjects.                                           *)
Stdevs == {Rat(-4, 5), Zero, Rat(4, 5)}
MosDiffs == {Zero, One}
NumComparisons == {-1, 0, 1, 100}
Powers == {Rat(4, 5), Rat(3, 2)}
BaseAlphas == {Rat(-1, 20), Zero, Rat(1, 20), One}
PlanThresholds == {LO, LO + 1, 27, HI + 1}
Args ==
    [stdev : Stdevs, mos_diff : MosDiffs, num_comparisons : NumComparisons,
     power : Powers, base_alpha : BaseAlphas, test_type : TestTypes]

(* What the user can type at the test-type prompt (after strip().lower()). *)
TypedInputs == {"", "i", "independent", "two.sample", "paired", "p", "anova"}

NoRecord == [n_subjects |-> 0]

(* lines 113-128: the body of calculate_subjects.  The two divisions come  *)
(* first; each raises ZeroDivisionError on a zero divisor.  Nothing else   *)
(* is checked before calculate_sample_size is called.                      *)
AdjustedAlpha(base_alpha, num_comparisons) == RatDiv(base_alpha, Rat(num_comparisons, 1))

SubjectsBody(a) ==
    IF Num(a.stdev) = 0 \/ a.num_comparisons = 0
    THEN /\ planOutcome' = "ZeroDivisionError"
         /\ record' = NoRecord
         /\ solverCalls' = solverCalls
    ELSE /\ planOutcome' = "returned"
         /\ solverCalls' = solverCalls + 1
         /\ record' =
               [n_subjects |-> calculate_sample_size(oracle),
                effect_size |-> RatDiv(a.mos_diff, a.stdev),
                adjusted_alpha |-> AdjustedAlpha(a.base_alpha, a.num_comparisons),
                base_alpha |-> a.base_alpha,
                stdev |-> a.stdev,
                mos_diff |-> a.mos_diff,
                num_comparisons |-> a.num_comparisons,
                power |-> a.power,
                test_type |-> a.test_type]

(* A direct call calculate_subjects(stdev, mos_diff, ...).                 *)
CalculateSubjects ==
    /\ planOutcome = "pending"
    /\ typed = "-"
    /\ SubjectsBody(args)
    /\ UNCHANGED <<args, typed>>
    /\ UNCHANGED <<solveVars, tableVars>>

(* line 218: the test-type selection of interactive_mode.                  *)
SelectTestType(input) ==
    IF input \in {"independent", "two.sample", "i"} THEN "two.sample" ELSE "paired"

(* lines 212-221: interactive_mode; base_alpha keeps its default 0.05.     *)
InteractiveMode ==
    /\ planOutcome = "pending"
    /\ typed # "-"
    /\ LET a == [args EXCEPT !.test_type = SelectTestType(typed),
                             !.base_alpha = Rat(1, 20)] IN
       /\ args' = a
       /\ SubjectsBody(a)
    /\ UNCHANGED typed
    /\ UNCHANGED <<solveVars, tableVars>>

NextPlan == CalculateSubjects \/ InteractiveMode

IdlePlanVars ==
    /\ args = [stdev |-> Rat(4, 5), mos_diff |-> One, num_comparisons |-> 100,
               power |-> Rat(4, 5), base_alpha |-> Rat(1, 20), test_type |-> "paired"]
    /\ record = NoRecord
    /\ planOutcome = "idle"
    /\ solverCalls = 0
    /\ typed = "-"

----------------------------------------------------------------------------
(* generate_table.  Effect sizes are counted in tenths and significance    *)
(* levels in units of 0.00001, the grids of lines 174 and 176.             *)
MaxLen == 2
None == <<-1>>
DefaultD == [i \in 1 .. 23 |-> i + 1]
DefaultAlpha == <<5000, 1000, 500, 100, 50, 10, 5, 1>>
DChoices == {2, 5}
AlphaChoices == {5000, 5}
TableThresholds == {LO + 1, 27}

SeqsUpTo(S, n) == UNION {[1 .. k -> S] : k \in 0 .. n}

(* The power oracle of a cell: for each (d, alpha) the least n whose power *)
(* reaches the target (powerT.other for the pairs outside the choices).    *)
CellOracle(d, alpha) ==
    IF <<d, alpha>> \in DOMAIN powerT.at
    THEN MonotoneOracle(powerT.at[<<d, alpha>>])
    ELSE MonotoneOracle(powerT.other)

(* lines 131-135: format_alpha, fixed notation with six decimals from      *)
(* 0.0001 up and scientific notation with two below.                       *)
format_alpha(alpha) == IF alpha >= 10 THEN <<"f6", alpha>> ELSE <<"e2", alpha>>

(* lines 173-186: the defaults, the title, the rules and the header.       *)
GenerateTableEntry ==
    /\ tpc = "entry"
    /\ LET D == IF d_values = None THEN DefaultD ELSE d_values
           A == IF alpha_values = None THEN DefaultAlpha ELSE alpha_values
           rule == <<"rule", 12 + 10 * Len(A)>>
       IN /\ d_values' = D
          /\ alpha_values' = A
          /\ printed' = <<  <<"title">>, rule,
                            <<"header", [j \in 1 .. Len(A) |-> format_alpha(A[j])]>>,
                            rule >>
    /\ ti' = 1
    /\ tpc' = "for_d"
    /\ UNCHANGED <<tj, row, calls, powerT>>
    /\ UNCHANGED <<solveVars, planVars>>

(* lines 189-190: the next d of the outer loop starts a row.               *)
RowBegin ==
    /\ tpc = "for_d"
    /\ ti <= Len(d_values)
    /\ row' = <<>>
    /\ tj' = 1
    /\ tpc' = "for_alpha"
    /\ UNCHANGED <<d_values, alpha_values, ti, printed, calls, powerT>>
    /\ UNCHANGED <<solveVars, planVars>>

(* lines 191-193: one cell, n = calculate_sample_size(d, alpha, ...).      *)
CellArgs(i, j) == <<d_values[i], alpha_values[j]>>

RowWithPrepended(r, n) == <<n>> \o r
RowWith(r, n) == Append(r, n)

Cell ==
    /\ tpc = "for_alpha"
    /\ tj <= Len(alpha_values)
    /\ LET a == CellArgs(ti, tj)
           n == calculate_sample_size(CellOracle(a[1], a[2]))
       IN /\ calls' = Append(calls, a)
          /\ row' = RowWith(row, n)
    /\ tj' = tj + 1
    /\ UNCHANGED <<d_values, alpha_values, tpc, ti, printed, powerT>>
    /\ UNCHANGED <<solveVars, planVars>>

(* line 194: print(row), and on to the next d.                             *)
RowEnd ==
    /\ tpc = "for_alpha"
    /\ tj > Len(alpha_values)
    /\ printed' = Append(printed, <<"row", d_values[ti], row>>)
    /\ ti' = ti + 1
    /\ tpc' = "for_d"
    /\ UNCHANGED <<d_values, alpha_values, tj, row, calls, powerT>>
    /\ UNCHANGED <<solveVars, planVars>>

(* The outer loop is exhausted: generate_table returns.                    *)
TableReturn ==
    /\ tpc = "for_d"
    /\ ti > Len(d_values)
    /\ tpc' = "done"
    /\ UNCHANGED <<d_values, alpha_values, ti, tj, row, printed, calls, powerT>>
    /\ UNCHANGED <<solveVars, planVars>>

NextTable == GenerateTableEntry \/ RowBegin \/ Cell \/ RowEnd \/ TableReturn

IdleTableVars ==
    /\ d_values = None
    /\ alpha_values = None
    /\ tpc = "idle"
    /\ ti = 0
    /\ tj = 0
    /\ row = <<>>
    /\ printed = <<>>
    /\ calls = <<>>
    /\ powerT = [at |-> <<>>, other |-> LO]

----------------------------------------------------------------------------
(* The three specifications.                                               *)
InitSolve ==
    /\ InitSolveVars
    /\ test_type \in TestTypes
    /\ oracle \in Oracles
    /\ IdlePlanVars
    /\ IdleTableVars

SpecSolve == InitSolve /\ [][NextSolve]_vars
FairSolve == SpecSolve /\ WF_vars(NextSolve)

InitPlan ==
    /\ IdleSolveVars
    /\ oracle \in {MonotoneOracle(T) : T \in PlanThresholds}
    /\ args \in Args
    /\ typed \in TypedInputs \cup {"-"}
    /\ record = NoRecord
    /\ planOutcome = "pending"
    /\ solverCalls = 0
    /\ IdleTableVars

SpecPlan == InitPlan /\ [][NextPlan]_vars

InitTable ==
    /\ IdleSolveVars
    /\ oracle = ArbitraryOracle
    /\ IdlePlanVars
    /\ d_values \in SeqsUpTo(DChoices, MaxLen) \cup {None}
    /\ alpha_values \in SeqsUpTo(AlphaChoices, MaxLen) \cup {None}
    /\ powerT \in [at : [DChoices \X AlphaChoices -> TableThresholds], other : TableThresholds]
    /\ tpc = "entry"
    /\ ti = 0
    /\ tj = 0
    /\ row = <<>>
    /\ printed = <<>>
    /\ calls = <<>>

SpecTable == InitTable /\ [][NextTable]_vars

----------------------------------------------------------------------------
(* Claims.                                                                 *)

(* C1: solver minimality.  For a power oracle that is non-decreasing in n  *)
(* and reaches the target at some n of [2, 10000], the value returned by   *)
(* calculate_sample_size is the least n of [2, 10000] with                 *)
(* power(n) >= target_power, which for the monotone oracle is its          *)
(* threshold T.                                                            *)
C1_SolverMinimality ==
    (pc = "done" /\ oracle.kind = "monotone" /\ oracle.T \in LO .. HI)
        => /\ result = oracle.T
           /\ ~Below(oracle, result)
           /\ (result - 1 >= LO => Below(oracle, result - 1))

(* C2: when the power at the upper bound 10000 is still below the target,  *)
(* the solver ends in the error SampleSizeUnattainable and does not return *)
(* the bound 10000.                                                        *)
C2_UnattainableIsAnError ==
    (pc = "done" /\ oracle.kind = "monotone" /\ Below(oracle, HI))
        => (outcome = "SampleSizeUnattainable" /\ result # HI)

(* C3: Bonferroni invariant.  Every record calculate_subjects returns has  *)
(* adjusted_alpha = base_alpha / num_comparisons and                       *)
(* 0 < adjusted_alpha <= base_alpha < 1; otherwise the call fails.         *)
C3_BonferroniInvariant ==
    planOutcome = "returned"
        => /\ Num(record.adjusted_alpha) * Den(record.base_alpha) * record.num_comparisons
                 = Num(record.base_alpha) * Den(record.adjusted_alpha)
           /\ RatLess(Zero, record.adjusted_alpha)
           /\ RatLeq(record.adjusted_alpha, record.base_alpha)
           /\ RatLess(record.base_alpha, One)

(* C4: calculate_subjects validates at entry.  With stdev <= 0, or         *)
(* num_comparisons < 1, or base_alpha or power outside (0, 1), the call    *)
(* fails with InvalidParameter before the solver is invoked and returns    *)
(* no record.                                                              *)
InvalidArgs(a) ==
    \/ RatLeq(a.stdev, Zero)
    \/ a.num_comparisons < 1
    \/ ~(RatLess(Zero, a.base_alpha) /\ RatLess(a.base_alpha, One))
    \/ ~(RatLess(Zero, a.power) /\ RatLess(a.power, One))

C4_ValidationAtEntry ==
    (planOutcome # "pending" /\ InvalidArgs(args))
        => (planOutcome = "InvalidParameter" /\ solverCalls = 0 /\ record = NoRecord)

(* C5: table shape.  When generate_table is done it has printed one row    *)
(* per element of d_values, each with one cell per element of              *)
(* alpha_values, the cell at row i and column j being the solver's result  *)
(* for (d_values[i], alpha_values[j]); the solver was invoked once per     *)
(* cell, in row-major order of the inputs.                                 *)
(* The rows follow the four lines GenerateTableEntry prints.               *)
TableRows == SubSeq(printed, 5, Len(printed))

C5_TableShape ==
    tpc = "done"
        => /\ Len(TableRows) = Len(d_values)
           /\ \A i \in 1 .. Len(d_values) :
                 /\ TableRows[i][2] = d_values[i]
                 /\ Len(TableRows[i][3]) = Len(alpha_values)
                 /\ \A j \in 1 .. Len(alpha_values) :
                       TableRows[i][3][j] =
                           calculate_sample_size(CellOracle(d_values[i], alpha_values[j]))
           /\ Len(calls) = Len(d_values) * Len(alpha_values)
           /\ \A i \in 1 .. Len(d_values) : \A j \in 1 .. Len(alpha_values) :
                 calls[(i - 1) * Len(alpha_values) + j] = <<d_values[i], alpha_values[j]>>

C5_Witness ==
    /\ tpc = "done"
    /\ Len(d_values) = 2
    /\ Len(alpha_values) = 2
    /\ d_values[1] # d_values[2]
    /\ alpha_values[1] # alpha_values[2]
    /\ TableRows[1][3][1] # TableRows[1][3][2]
    /\ TableRows[1][3][1] # TableRows[2][3][1]

(* C6: for every power oracle, monotone or not, the binary search          *)
(* terminates, after at most 14 power evaluations.                         *)
C6_TerminatesWithin14 == [](evals <= 14) /\ <>(pc = "done")

C6_Witness == pc = "done" /\ evals = 14 /\ oracle.kind = "arbitrary"

(* C8: the design is a closed choice.  Every power evaluation uses         *)
(* df = n - 1 for "paired" and df = 2n - 2 for "two.sample", and a         *)
(* test_type that is neither is rejected, never evaluated.                 *)
C8_ClosedDesign ==
    /\ test_type \notin Designs => (evals = 0 /\ outcome \notin {"returned"})
    /\ evals > 0 => \/ (test_type = "paired" /\ df = mid - 1)
                    \/ (test_type = "two.sample" /\ df = 2 * mid - 2)

(* C9: loop invariant of calculate_sample_size.  In every iteration        *)
(* 2 <= lo < mid < hi <= 10000, so power is evaluated only at              *)
(* 3 <= n <= 9999, with df >= 1, and the returned value lies in            *)
(* 3 .. 10000.                                                             *)
C9_LoopInvariant ==
    /\ [](/\ LO <= lo /\ lo < hi /\ hi <= HI
          /\ \A o \in observed : 3 <= o[1] /\ o[1] <= 9999
          /\ evals > 0 => (mid \in 3 .. 9999 /\ df >= 1)
          /\ pc = "done" => result \in 3 .. 10000)
    /\ [][evals' # evals => (LO <= lo /\ lo < mid' /\ mid' < hi /\ hi <= HI)]_vars

C9_Witness ==
    /\ pc = "done"
    /\ result = 3
    /\ mid = 3
    /\ df = 2
    /\ <<3, FALSE>> \in observed
    /\ <<4, FALSE>> \in observed

(* C10: boundary property for an arbitrary power oracle.  lo is only ever  *)
(* moved to points evaluated below the target and hi to points evaluated   *)
(* at or above it; on exit hi = lo + 1, so the returned n is 10000 or was  *)
(* observed at or above the target, and n - 1 is 2 or was observed below.  *)
C10_ObservedBoundary ==
    /\ (lo = LO \/ <<lo, TRUE>> \in observed)
    /\ (hi = HI \/ <<hi, FALSE>> \in observed)
    /\ pc = "done"
          => /\ hi = lo + 1
             /\ result = hi
             /\ (result = HI \/ <<result, FALSE>> \in observed)
             /\ (result - 1 = LO \/ <<result - 1, TRUE>> \in observed)

C10_Witness ==
    /\ pc = "done"
    /\ oracle.kind = "arbitrary"
    /\ result \notin {HI, LO + 1}
    /\ <<result, FALSE>> \in observed
    /\ <<result - 1, TRUE>> \in observed
    /\ <<Mid(LO, HI), FALSE>> \in observed

====
